---- MODULE Spec2Model ----
(***************************************************************************)
(* Countdown timer of the INNOVISION 2K26 coming-soon page (src/script.js). *)
(*                                                                         *)
(* The module models                                                       *)
(*   - CountdownTimer.calculateTimeRemaining and formatNumber as operators, *)
(*   - one CountdownTimer session (its timerInterval field, the DOM slots  *)
(*     it writes, the interval timers the host has scheduled for it, the   *)
(*     console) driven by initializeApp, start, stop, reset, the interval  *)
(*     callbacks, the wall clock and the beforeunload handler.             *)
(*                                                                         *)
(* Times are integer milliseconds, counted from an arbitrary origin so     *)
(* that they fit the model checker's integers; the code only ever uses     *)
(* the difference targetDate - now.                                        *)
(***************************************************************************)
EXTENDS Integers, Sequences, FiniteSets, TLC

VARIABLES
    targetDate,     \* this.targetDate
    now,            \* the wall clock, new Date().getTime()
    sample,         \* the last value calculateTimeRemaining returned
    present,        \* which of the four required elements getElementById found
    hasStatus,      \* document.querySelector('.coming-soon h2') finds an element
    hasNotify,      \* document.getElementById('notify-btn') finds an element
    slots,          \* textContent of the four required elements
    statusText,     \* textContent of the '.coming-soon h2' element
    notifyBtn,      \* disabled / textContent of the notify button
    timerInterval,  \* this.timerInterval
    timers,         \* live interval timers of the host: handle -> next due time
    nextHandle,     \* the handle the next setInterval call returns
    console,        \* the messages written to the console so far
    hasSponsors,    \* document.getElementById('sponsors-btn') finds an element
    ctaBound,       \* the click and keypress listeners are on the sponsors button
    app,            \* progress of the script and of initializeApp
    lastOp,         \* the operation the last step ran
    wrote,          \* the required slots the last step assigned to
    threw,          \* the last step's operation ended in an uncaught TypeError
    renders,        \* how many times the last step ran updateDisplay
    stopped,        \* stop() has returned and no start() has returned since
    calcPrev,       \* SpecCalc: the instant and the result of the call before
    formatArg,      \* SpecFormat: the argument of the last formatNumber call
    formatResult    \* SpecFormat: what that call returned

vars == <<targetDate, now, sample, present, hasStatus, hasNotify, slots,
          statusText, notifyBtn, timerInterval, timers, nextHandle, console,
          hasSponsors, ctaBound, app, lastOp, wrote, threw, renders, stopped,
          calcPrev, formatArg, formatResult>>

-----------------------------------------------------------------------------
(* Configuration and units                                                 *)

UPDATE_INTERVAL == 1000

MsPerSecond == 1000
SecondsPerMinute == 60
SecondsPerHour == 3600
SecondsPerDay == 86400

(* Bounds of the model *)
MaxDays == 2        \* sampled instants span 0..MaxDays whole days
MaxNow == 2000      \* the session's clock stops advancing here
MaxHandles == 3     \* setInterval is called at most this many times
MaxNumber == 1200   \* formatNumber is applied to 0..MaxNumber
LiveHorizon == 6000 \* SpecLive: the clock never reads more than this

NULL == 0           \* null; setInterval handles are positive integers

-----------------------------------------------------------------------------
(* CountdownTimer.calculateTimeRemaining, with the clock reading t         *)

ExpiredState ==
    [days |-> 0, hours |-> 0, minutes |-> 0, seconds |-> 0, isExpired |-> TRUE]

\* mutant: the difference is rounded up to whole seconds instead of floored
calculateTimeRemaining_ceil(target, t) ==
    LET timeRemaining == target - t IN
    IF timeRemaining <= 0 THEN ExpiredState
    ELSE
        LET totalSeconds == (timeRemaining + MsPerSecond - 1) \div MsPerSecond
        IN  [days      |-> totalSeconds \div SecondsPerDay,
             hours     |-> (totalSeconds % SecondsPerDay) \div SecondsPerHour,
             minutes   |-> (totalSeconds % SecondsPerHour) \div SecondsPerMinute,
             seconds   |-> totalSeconds % SecondsPerMinute,
             isExpired |-> FALSE]

\* mutant: the expiry test is "< 0", so the instant now = target is not expired
calculateTimeRemaining_strict(target, t) ==
    LET timeRemaining == target - t IN
    IF timeRemaining < 0 THEN ExpiredState
    ELSE
        LET totalSeconds == timeRemaining \div MsPerSecond
        IN  [days      |-> totalSeconds \div SecondsPerDay,
             hours     |-> (totalSeconds % SecondsPerDay) \div SecondsPerHour,
             minutes   |-> (totalSeconds % SecondsPerHour) \div SecondsPerMinute,
             seconds   |-> totalSeconds % SecondsPerMinute,
             isExpired |-> FALSE]

\* mutant: the hours are not reduced modulo one day
calculateTimeRemaining_hours(target, t) ==
    LET timeRemaining == target - t IN
    IF timeRemaining <= 0 THEN ExpiredState
    ELSE
        LET totalSeconds == timeRemaining \div MsPerSecond
        IN  [days      |-> totalSeconds \div SecondsPerDay,
             hours     |-> totalSeconds \div SecondsPerHour,
             minutes   |-> (totalSeconds % SecondsPerHour) \div SecondsPerMinute,
             seconds   |-> totalSeconds % SecondsPerMinute,
             isExpired |-> FALSE]

\* mutant: a non-expired result is never all zero (the last second is kept)
calculateTimeRemaining_atLeastOne(target, t) ==
    LET timeRemaining == target - t IN
    IF timeRemaining <= 0 THEN ExpiredState
    ELSE
        LET floored == timeRemaining \div MsPerSecond
            totalSeconds == IF floored = 0 THEN 1 ELSE floored
        IN  [days      |-> totalSeconds \div SecondsPerDay,
             hours     |-> (totalSeconds % SecondsPerDay) \div SecondsPerHour,
             minutes   |-> (totalSeconds % SecondsPerHour) \div SecondsPerMinute,
             seconds   |-> totalSeconds % SecondsPerMinute,
             isExpired |-> FALSE]

\* mutant: after the target the time since expiry is reported
calculateTimeRemaining_overtime(target, t) ==
    LET timeRemaining == target - t
        totalSeconds == (IF timeRemaining <= 0 THEN -timeRemaining
                         ELSE timeRemaining) \div MsPerSecond
    IN  [days      |-> totalSeconds \div SecondsPerDay,
         hours     |-> (totalSeconds % SecondsPerDay) \div SecondsPerHour,
         minutes   |-> (totalSeconds % SecondsPerHour) \div SecondsPerMinute,
         seconds   |-> totalSeconds % SecondsPerMinute,
         isExpired |-> timeRemaining <= 0]

\* mutant: the difference is taken the wrong way round, now - target
calculateTimeRemaining_reversed(target, t) ==
    LET timeRemaining == t - target IN
    IF timeRemaining <= 0 THEN ExpiredState
    ELSE
        LET totalSeconds == timeRemaining \div MsPerSecond
        IN  [days      |-> totalSeconds \div SecondsPerDay,
             hours     |-> (totalSeconds % SecondsPerDay) \div SecondsPerHour,
             minutes   |-> (totalSeconds % SecondsPerHour) \div SecondsPerMinute,
             seconds   |-> totalSeconds % SecondsPerMinute,
             isExpired |-> FALSE]

calculateTimeRemaining(target, t) ==
    LET timeRemaining == target - t IN
    IF timeRemaining <= 0 THEN ExpiredState
    ELSE
        LET totalSeconds == timeRemaining \div MsPerSecond
        IN  [days      |-> totalSeconds \div SecondsPerDay,
             hours     |-> (totalSeconds % SecondsPerDay) \div SecondsPerHour,
             minutes   |-> (totalSeconds % SecondsPerHour) \div SecondsPerMinute,
             seconds   |-> totalSeconds % SecondsPerMinute,
             isExpired |-> FALSE]

-----------------------------------------------------------------------------
(* CountdownTimer.formatNumber: String(num).padStart(2, '0')               *)

Digit == <<"0", "1", "2", "3", "4", "5", "6", "7", "8", "9">>

\* String(num) for a non-negative integer: its decimal digits
RECURSIVE String(_)
String(num) ==
    IF num < 10 THEN Digit[num + 1]
    ELSE String(num \div 10) \o Digit[(num % 10) + 1]

\* mutant: the string is cut to its last two characters
padStart2_truncates(str) ==
    IF Len(str) < 2 THEN "0" \o str ELSE SubSeq(str, Len(str) - 1, Len(str))

\* str.padStart(2, '0'): pad on the left up to length 2, never truncate
padStart2(str) == IF Len(str) < 2 THEN "0" \o str ELSE str

formatNumber(num) == padStart2(String(num))

-----------------------------------------------------------------------------
(* The display surface                                                     *)

Slots == {"days", "hours", "minutes", "seconds"}

\* the order in which updateDisplay assigns the four elements
SlotOrder == <<"days", "hours", "minutes", "seconds">>

\* Text of an element the script has not assigned yet (the page's markup is
\* not part of the script; formatNumber never produces the empty string).
Unwritten == ""

NotifyInitial ==
    [disabled |-> FALSE, text |-> Unwritten, opacity |-> Unwritten,
     cursor |-> Unwritten]

NotifyLive ==
    [disabled |-> TRUE, text |-> "Event Live", opacity |-> "0.6",
     cursor |-> "not-allowed"]

-----------------------------------------------------------------------------
(* The session as a value: the methods below map a session to a session.   *)

Cur ==
    [timerInterval |-> timerInterval, timers |-> timers,
     nextHandle |-> nextHandle, slots |-> slots, statusText |-> statusText,
     notifyBtn |-> notifyBtn, console |-> console, stopped |-> stopped,
     sample |-> sample, wrote |-> {}, threw |-> FALSE, renders |-> 0]

\* window.clearInterval(h): cancels timer h; no effect when h is not live
clearInterval(tm, h) == [x \in (DOMAIN tm) \ {h} |-> tm[x]]

\* window.setInterval(callback, delay) at time t: schedules a timer under
\* the next handle; the handle returned is s.nextHandle
setInterval(s, t, delay) ==
    [s EXCEPT !.timers = [x \in (DOMAIN @) \cup {s.nextHandle} |->
                             IF x = s.nextHandle THEN t + delay ELSE @[x]],
              !.nextHandle = @ + 1]

log(s, msg) == [s EXCEPT !.console = @ \cup {msg}]

\* mutant: the timer is cancelled but the handle is kept in the field
stop_keepsHandle(s) ==
    IF s.timerInterval # NULL
    THEN log([s EXCEPT !.timers = clearInterval(@, s.timerInterval),
                       !.stopped = TRUE],
             "Countdown timer stopped")
    ELSE [s EXCEPT !.stopped = TRUE]

\* mutant: the field is cleared but the timer is not cancelled
stop_forgetsClear(s) ==
    IF s.timerInterval # NULL
    THEN log([s EXCEPT !.timerInterval = NULL, !.stopped = TRUE],
             "Countdown timer stopped")
    ELSE [s EXCEPT !.stopped = TRUE]

\* CountdownTimer.stop
stop(s) ==
    IF s.timerInterval # NULL
    THEN log([s EXCEPT !.timers = clearInterval(@, s.timerInterval),
                       !.timerInterval = NULL,
                       !.stopped = TRUE],
             "Countdown timer stopped")
    ELSE [s EXCEPT !.stopped = TRUE]

\* mutant: the expired event updates the page but does not stop the timer
handleExpiredEvent_noStop(s) ==
    LET s1 == log(s, "Event date reached!")
        s3 == IF hasStatus THEN [s1 EXCEPT !.statusText = "Event Started!"]
              ELSE s1
    IN  IF hasNotify THEN [s3 EXCEPT !.notifyBtn = NotifyLive] ELSE s3

\* CountdownTimer.handleExpiredEvent
handleExpiredEvent(s) ==
    LET s1 == log(s, "Event date reached!")
        s2 == stop(s1)
        s3 == IF hasStatus THEN [s2 EXCEPT !.statusText = "Event Started!"]
              ELSE s2
    IN  IF hasNotify THEN [s3 EXCEPT !.notifyBtn = NotifyLive] ELSE s3

\* CountdownTimer.updateDisplay at clock reading t.  The four assignments run
\* in SlotOrder; assigning textContent of an element that is null throws a
\* TypeError, which ends the method there.
updateDisplay(s, t) ==
    LET timeRemaining == calculateTimeRemaining(targetDate, t)
        text == [days    |-> formatNumber(timeRemaining.days),
                 hours   |-> formatNumber(timeRemaining.hours),
                 minutes |-> formatNumber(timeRemaining.minutes),
                 seconds |-> formatNumber(timeRemaining.seconds)]
        nulls == {i \in 1..Len(SlotOrder) : SlotOrder[i] \notin present}
        firstNull == IF nulls = {} THEN Len(SlotOrder) + 1
                     ELSE CHOOSE i \in nulls : \A j \in nulls : i <= j
        assigned == {SlotOrder[i] : i \in 1..(firstNull - 1)}
        s1 == [s EXCEPT !.sample = timeRemaining,
                        !.renders = @ + 1,
                        !.slots = [e \in Slots |->
                                      IF e \in assigned THEN text[e] ELSE @[e]],
                        !.wrote = @ \cup assigned]
    IN  IF nulls # {} THEN [s1 EXCEPT !.threw = TRUE]
        ELSE IF timeRemaining.isExpired THEN handleExpiredEvent(s1)
        ELSE s1

\* mutant: start() only schedules the interval, without the immediate update
start_noImmediateUpdate(s, t) ==
    LET s2 == setInterval(s, t, UPDATE_INTERVAL) IN
    log([s2 EXCEPT !.timerInterval = s.nextHandle, !.stopped = FALSE],
        "Countdown timer started")

\* CountdownTimer.start at clock reading t
start(s, t) ==
    LET s1 == updateDisplay(s, t) IN
    IF s1.threw THEN s1
    ELSE LET s2 == setInterval(s1, t, UPDATE_INTERVAL) IN
         log([s2 EXCEPT !.timerInterval = s1.nextHandle, !.stopped = FALSE],
             "Countdown timer started")

\* CountdownTimer.reset at clock reading t
reset(s, t) == start(stop(s), t)

\* CountdownTimer.validateElements, called by the constructor
validateElements(s) ==
    IF present # Slots
    THEN log(s, "ERROR: One or more countdown timer elements not found in DOM")
    ELSE s

\* the session's fields and the surface after an operation has produced s
Commit(s, op) ==
    /\ timerInterval' = s.timerInterval
    /\ timers' = s.timers
    /\ nextHandle' = s.nextHandle
    /\ slots' = s.slots
    /\ statusText' = s.statusText
    /\ notifyBtn' = s.notifyBtn
    /\ console' = s.console
    /\ sample' = s.sample
    /\ stopped' = s.stopped
    /\ wrote' = s.wrote
    /\ threw' = s.threw
    /\ renders' = s.renders
    /\ lastOp' = op

dom == <<present, hasStatus, hasNotify, hasSponsors>>

\* the variables that only the specifications of the pure functions use
pure == <<calcPrev, formatArg, formatResult>>

-----------------------------------------------------------------------------
(* The session: the page, the class's methods, the host's timers and clock *)

\* no sample taken yet
NoSample == [taken |-> FALSE]

\* target instants of the sessions explored (ms after the clock's origin)
SessionTargets == {0, 1500, 62000, 90061500}

\* how far the clock may move between two steps
AdvanceSteps == {500, 1000}

Init ==
    /\ targetDate \in SessionTargets
    /\ now = 0
    /\ sample = NoSample
    /\ present \in SUBSET Slots
    /\ hasStatus \in BOOLEAN
    /\ hasNotify \in BOOLEAN
    /\ hasSponsors \in BOOLEAN
    /\ slots = [e \in Slots |-> Unwritten]
    /\ statusText = Unwritten
    /\ notifyBtn = NotifyInitial
    /\ timerInterval = NULL
    /\ timers = << >>
    /\ nextHandle = 1
    /\ console = {}
    /\ ctaBound = FALSE
    /\ app \in {"loading", "loaded", "script"}
    /\ lastOp = "none"
    /\ wrote = {}
    /\ threw = FALSE
    /\ renders = 0
    /\ stopped = FALSE
    /\ calcPrev = NoSample
    /\ formatArg = 0
    /\ formatResult = Unwritten

\* a CountdownTimer object exists
Constructed == app \in {"constructed", "initialized", "aborted", "scriptAborted"}

\* initializeCTAButtons
initializeCTAButtons(s) ==
    IF ~hasSponsors THEN log(s, "ERROR: Sponsors button element not found")
    ELSE s

\* initializeApp, run by the DOMContentLoaded listener (app = "loading": the
\* rest of the script, with its window listeners, has already run) or called
\* by the script itself (app = "loaded": the window listeners are added after
\* the call returns).  A TypeError leaving start() ends initializeApp; in the
\* first case the window's error listener logs it, in the second it ends the
\* script before any window listener is added.
InitializeApp ==
    /\ app \in {"loading", "loaded"}
    /\ nextHandle <= MaxHandles
    /\ LET s0 == log(Cur, "Initializing INNOVISION 2K26 Coming Soon Page")
           s1 == validateElements(s0)
           s2 == start(s1, now)
           s3 == log(initializeCTAButtons(s2),
                     "Application initialized successfully")
       IN  IF s2.threw
           THEN /\ Commit(IF app = "loading" THEN log(s2, "Global Error") ELSE s2,
                          "initializeApp")
                /\ app' = IF app = "loading" THEN "aborted" ELSE "scriptAborted"
                /\ ctaBound' = ctaBound
           ELSE /\ Commit(s3, "initializeApp")
                /\ app' = "initialized"
                /\ ctaBound' = hasSponsors
    /\ UNCHANGED <<targetDate, now, dom, pure>>

\* new CountdownTimer(targetDate) by a caller other than initializeApp
Construct ==
    /\ app = "script"
    /\ Commit(validateElements(Cur), "construct")
    /\ app' = "constructed"
    /\ UNCHANGED <<targetDate, now, dom, pure, ctaBound>>

\* timer.start() by a caller
Start ==
    /\ Constructed
    /\ nextHandle <= MaxHandles
    /\ Commit(start(Cur, now), "start")
    /\ UNCHANGED <<targetDate, now, dom, pure, ctaBound, app>>

\* timer.stop() by a caller
Stop ==
    /\ Constructed
    /\ Commit(stop(Cur), "stop")
    /\ UNCHANGED <<targetDate, now, dom, pure, ctaBound, app>>

\* timer.reset() by a caller
Reset ==
    /\ Constructed
    /\ nextHandle <= MaxHandles
    /\ Commit(reset(Cur, now), "reset")
    /\ UNCHANGED <<targetDate, now, dom, pure, ctaBound, app>>

\* The host runs the callback of live timer h, which is due, and schedules
\* its next run unless the callback cancelled it.
Tick(h) ==
    /\ h \in DOMAIN timers
    /\ now >= timers[h]
    /\ LET s1 == updateDisplay(Cur, now)
           s2 == IF h \in DOMAIN s1.timers
                 THEN [s1 EXCEPT !.timers[h] = now + UPDATE_INTERVAL]
                 ELSE s1
       IN  Commit(IF s2.threw /\ app # "scriptAborted"
                  THEN log(s2, "Global Error") ELSE s2, "tick")
    /\ UNCHANGED <<targetDate, now, dom, pure, ctaBound, app>>

\* the callback of some live timer runs
TimerFires == \E h \in DOMAIN timers : Tick(h)

\* the clock reads d ms more; nothing else changes
ClockMoves(d) ==
    /\ now' = now + d
    /\ lastOp' = "advance"
    /\ wrote' = {}
    /\ threw' = FALSE
    /\ renders' = 0
    /\ UNCHANGED <<targetDate, sample, dom, pure, slots, statusText, notifyBtn,
                   timerInterval, timers, nextHandle, console, ctaBound, app,
                   stopped>>

\* The wall clock moves on.
Advance(d) == now + d <= MaxNow /\ ClockMoves(d)

\* The window's beforeunload listener: it creates one more interval timer
\* and cancels that same timer.
BeforeUnload ==
    /\ app \in {"loading", "initialized", "aborted"}
    /\ nextHandle <= MaxHandles
    /\ LET s1 == setInterval(Cur, now, 1000)
           allIntervals == Cur.nextHandle
       IN  Commit([s1 EXCEPT !.timers = clearInterval(@, allIntervals)],
                  "beforeunload")
    /\ UNCHANGED <<targetDate, now, dom, pure, ctaBound, app>>

Next ==
    \/ InitializeApp
    \/ Construct
    \/ Start
    \/ Stop
    \/ Reset
    \/ TimerFires
    \/ \E d \in AdvanceSteps : Advance(d)
    \/ BeforeUnload

Spec == Init /\ [][Next]_vars

-----------------------------------------------------------------------------
(* The page left to itself: initializeApp, the timer's callbacks, the clock *)
(* and beforeunload; nobody calls start(), stop() or reset().  The host    *)
(* keeps delivering due callbacks and the clock keeps moving while a timer *)
(* waits for its due time.                                                 *)

LiveTargets == {0, 1500, 4000}

LiveInit ==
    /\ targetDate \in LiveTargets
    /\ now = 0
    /\ sample = NoSample
    /\ present = Slots
    /\ hasStatus \in BOOLEAN
    /\ hasNotify \in BOOLEAN
    /\ hasSponsors = TRUE
    /\ slots = [e \in Slots |-> Unwritten]
    /\ statusText = Unwritten
    /\ notifyBtn = NotifyInitial
    /\ timerInterval = NULL
    /\ timers = << >>
    /\ nextHandle = 1
    /\ console = {}
    /\ ctaBound = FALSE
    /\ app \in {"loading", "loaded"}
    /\ lastOp = "none"
    /\ wrote = {}
    /\ threw = FALSE
    /\ renders = 0
    /\ stopped = FALSE
    /\ calcPrev = NoSample
    /\ formatArg = 0
    /\ formatResult = Unwritten

\* The wall clock moves on: up to MaxNow in any case, and beyond it for as
\* long as a live timer is not yet due.
LiveAdvance(d) ==
    /\ \/ now + d <= MaxNow
       \/ \E h \in DOMAIN timers : timers[h] > now
    /\ now + d <= LiveHorizon
    /\ ClockMoves(d)

LiveClock == \E d \in AdvanceSteps : LiveAdvance(d)

LiveNext ==
    \/ InitializeApp
    \/ TimerFires
    \/ LiveClock
    \/ BeforeUnload

SpecLive ==
    /\ LiveInit
    /\ [][LiveNext]_vars
    /\ WF_vars(TimerFires)
    /\ WF_vars(LiveClock)

-----------------------------------------------------------------------------
(* calculateTimeRemaining on its own, over a range of instants             *)

\* instants d days, h hours, m minutes, s seconds and ms milliseconds after
\* the clock's origin
CalcInstants ==
    {((d * SecondsPerDay + h * SecondsPerHour + m * SecondsPerMinute + s)
        * MsPerSecond) + ms :
        d \in 0..MaxDays, h \in {0, 1, 23}, m \in {0, 59}, s \in {0, 1, 59},
        ms \in {0, 1, 999}}

CalcTargets == {1500, 90061000, (MaxDays * SecondsPerDay * MsPerSecond) + 999}

CalcInit ==
    /\ targetDate \in CalcTargets
    /\ now \in CalcInstants
    /\ sample = NoSample
    /\ present = Slots
    /\ hasStatus = TRUE
    /\ hasNotify = TRUE
    /\ hasSponsors = TRUE
    /\ slots = [e \in Slots |-> Unwritten]
    /\ statusText = Unwritten
    /\ notifyBtn = NotifyInitial
    /\ timerInterval = NULL
    /\ timers = << >>
    /\ nextHandle = 1
    /\ console = {}
    /\ ctaBound = FALSE
    /\ app = "script"
    /\ lastOp = "none"
    /\ wrote = {}
    /\ threw = FALSE
    /\ renders = 0
    /\ stopped = FALSE
    /\ calcPrev = NoSample
    /\ formatArg = 0
    /\ formatResult = Unwritten

\* one call of calculateTimeRemaining; the instant it reads from the clock
\* is any instant not before the last one read
CalcSample ==
    /\ \E t \in CalcInstants :
        /\ t >= now
        /\ now' = t
        /\ sample' = calculateTimeRemaining(targetDate, t)
    /\ calcPrev' = IF lastOp = "sample" THEN [at |-> now, value |-> sample]
                   ELSE NoSample
    /\ lastOp' = "sample"
    /\ UNCHANGED <<targetDate, dom, slots, statusText, notifyBtn,
                   timerInterval, timers, nextHandle, console, ctaBound, app,
                   wrote, threw, renders, stopped, formatArg, formatResult>>

CalcNext == CalcSample

SpecCalc == CalcInit /\ [][CalcNext]_vars

-----------------------------------------------------------------------------
(* formatNumber on its own, over a range of numbers                        *)

FormatInit ==
    /\ targetDate = 0
    /\ now = 0
    /\ sample = NoSample
    /\ present = Slots
    /\ hasStatus = TRUE
    /\ hasNotify = TRUE
    /\ hasSponsors = TRUE
    /\ slots = [e \in Slots |-> Unwritten]
    /\ statusText = Unwritten
    /\ notifyBtn = NotifyInitial
    /\ timerInterval = NULL
    /\ timers = << >>
    /\ nextHandle = 1
    /\ console = {}
    /\ ctaBound = FALSE
    /\ app = "script"
    /\ lastOp = "none"
    /\ wrote = {}
    /\ threw = FALSE
    /\ renders = 0
    /\ stopped = FALSE
    /\ calcPrev = NoSample
    /\ formatArg = 0
    /\ formatResult = Unwritten

\* one call of formatNumber
FormatCall ==
    /\ \E num \in 0..MaxNumber :
        /\ formatArg' = num
        /\ formatResult' = formatNumber(num)
    /\ lastOp' = "format"
    /\ UNCHANGED <<targetDate, now, sample, dom, slots, statusText, notifyBtn,
                   timerInterval, timers, nextHandle, console, ctaBound, app,
                   wrote, threw, renders, stopped, calcPrev>>

FormatNext == FormatCall

SpecFormat == FormatInit /\ [][FormatNext]_vars

-----------------------------------------------------------------------------
(* Properties of calculateTimeRemaining, checked under SpecCalc            *)

\* the duration, in seconds, that the four numeric fields of r represent
TotalSeconds(r) ==
    (r.days * SecondsPerDay) + (r.hours * SecondsPerHour)
        + (r.minutes * SecondsPerMinute) + r.seconds

\* the state holds the result of a call made at instant now
Sampled == lastOp = "sample"

\* C1: for every sampling instant now < target the result is not expired and
\* days*86400 + hours*3600 + minutes*60 + seconds = floor((target - now)/1000).
C1_ReconstructsFloor ==
    (Sampled /\ now < targetDate) =>
        /\ sample.isExpired = FALSE
        /\ TotalSeconds(sample) = (targetDate - now) \div 1000

\* a non-expired sample with every field non-zero and a fraction of a second
\* cut off
C1_Witness ==
    /\ Sampled
    /\ now < targetDate
    /\ sample.days >= 1 /\ sample.hours >= 1
    /\ sample.minutes >= 1 /\ sample.seconds >= 1
    /\ (targetDate - now) % 1000 # 0

\* C2: for every sampling instant now >= target (now = target included) the
\* result is exactly days = hours = minutes = seconds = 0, isExpired = true.
C2_ExpiredIsZero ==
    (Sampled /\ now >= targetDate) =>
        sample = [days |-> 0, hours |-> 0, minutes |-> 0, seconds |-> 0,
                  isExpired |-> TRUE]

\* a sample taken exactly at the target instant
C2_Witness == Sampled /\ now = targetDate /\ sample.isExpired

\* C3 as stated: every sample that is not expired represents a strictly
\* positive duration, days*86400 + hours*3600 + minutes*60 + seconds > 0.
C3_NonExpiredIsPositive ==
    (Sampled /\ ~sample.isExpired) => TotalSeconds(sample) > 0

\* C3 amended: a sample that is not expired represents a duration >= 0, which
\* is strictly positive exactly when target - now is at least 1000 ms (for a
\* difference of 1..999 ms all four fields are 0 and isExpired is false).
C3_NonExpiredIsPositiveFromOneSecond ==
    (Sampled /\ ~sample.isExpired) =>
        /\ TotalSeconds(sample) >= 0
        /\ (TotalSeconds(sample) > 0) <=> (targetDate - now >= 1000)

\* a non-expired sample less than one second before the target
C3_Witness ==
    /\ Sampled
    /\ ~sample.isExpired
    /\ targetDate - now \in 1..999
    /\ TotalSeconds(sample) = 0

\* C4: in every non-expired result days is a non-negative integer, hours is
\* in 0..23, minutes in 0..59 and seconds in 0..59.
C4_FieldRanges ==
    (Sampled /\ ~sample.isExpired) =>
        /\ sample.days \in Nat
        /\ sample.hours \in 0..23
        /\ sample.minutes \in 0..59
        /\ sample.seconds \in 0..59

\* a non-expired sample of more than a day with hours, minutes and seconds
\* at the top of their ranges
C4_Witness ==
    /\ Sampled
    /\ ~sample.isExpired
    /\ sample.days >= 1
    /\ sample.hours = 23 /\ sample.minutes = 59 /\ sample.seconds = 59

-----------------------------------------------------------------------------
(* Properties of the session, checked under Spec                           *)

\* C5: once the session has reached Expired (an expired sample was rendered
\* and handleExpiredEvent ran), no later tick assigns any of the four
\* numeric slots.
C5_NoWriteAfterExpired ==
    [][("Event date reached!" \in console /\ lastOp' = "tick")
            => wrote' = {}]_vars

\* C6: after stop() has returned, from inside or outside a tick handler, no
\* tick of the session fires until start() or reset() is called again.
C6_NoTickAfterStop == [][stopped => lastOp' # "tick"]_vars

\* C7: when a required slot is absent, start() reports a diagnostic and
\* returns normally: no error reaches its caller and initializeApp runs to
\* its end.
C7_StartDoesNotThrow ==
    (present # Slots /\ lastOp \in {"initializeApp", "start", "reset"}) =>
        /\ "ERROR: One or more countdown timer elements not found in DOM"
               \in console
        /\ threw = FALSE
        /\ app \notin {"aborted", "scriptAborted"}

\* C8: when a required slot is absent, no value is written to any slot that
\* is present and no interval timer of the session becomes active.
C8_NoSamplingWhenSlotMissing ==
    (present # Slots) =>
        /\ \A e \in present : slots[e] = Unwritten
        /\ timerInterval = NULL
        /\ DOMAIN timers = {}

\* C9: when the beforeunload handler has run on a Running session (started,
\* not stopped, not expired), no interval timer of the session is left
\* scheduled.
C9_TeardownReleasesTimer ==
    (/\ lastOp = "beforeunload"
     /\ timerInterval # NULL
     /\ "Event date reached!" \notin console) => DOMAIN timers = {}

\* the program's state in session value s (without the bookkeeping of the
\* last step)
ProgramState(s) ==
    <<s.timerInterval, s.timers, s.nextHandle, s.slots, s.statusText,
      s.notifyBtn, s.console, s.sample>>

\* C10: in every reachable state a second stop() changes nothing of what the
\* first left; after stop() the timerInterval field is null and the timer it
\* named is cancelled; stop() on a session whose field is null (before any
\* start() in particular) changes nothing.
C10_StopIdempotent ==
    LET once == stop(Cur)
        twice == stop(once)
    IN  /\ ProgramState(twice) = ProgramState(once)
        /\ once.timerInterval = NULL
        /\ timerInterval # NULL => timerInterval \notin DOMAIN once.timers
        /\ timerInterval = NULL => ProgramState(once) = ProgramState(Cur)

\* stop() has just cancelled a running session's timer
C10_Witness ==
    /\ lastOp = "stop"
    /\ "Countdown timer stopped" \in console
    /\ "Event date reached!" \notin console
    /\ timerInterval = NULL
    /\ DOMAIN timers = {}

\* C11: on a tick whose sample is expired (the first such tick: it ends the
\* session's timer), within that tick the timer named by timerInterval is
\* cancelled and the field cleared, so that no timer is left when the session
\* holds no timer besides the one the field names; the status slot reads
\* "Event Started!" if it is present, the notify button is disabled and
\* re-labelled if it is present, and absent optional elements cause no error.
C11_ExpiredTickStopsAndMarks ==
    [][(lastOp' = "tick" /\ sample'.isExpired) =>
            /\ timerInterval' = NULL
            /\ timerInterval # NULL => timerInterval \notin DOMAIN timers'
            /\ DOMAIN timers \subseteq {timerInterval} => DOMAIN timers' = {}
            /\ "Countdown timer stopped" \in console'
            /\ hasStatus => statusText' = "Event Started!"
            /\ hasNotify => /\ notifyBtn'.disabled
                            /\ notifyBtn'.text = "Event Live"
            /\ ~hasStatus => statusText' = statusText
            /\ ~hasNotify => notifyBtn' = notifyBtn
            /\ threw' = FALSE]_vars

\* a tick has just rendered the first expired sample of a session that was
\* started before its target: sampling stopped, status and button updated
C11_Witness ==
    /\ lastOp = "tick"
    /\ sample.isExpired
    /\ targetDate > 0
    /\ hasStatus /\ hasNotify
    /\ timerInterval = NULL
    /\ DOMAIN timers = {}
    /\ statusText = "Event Started!"
    /\ notifyBtn.disabled

\* start(), reset() or initializeApp() has just returned on a session with
\* all four slots
StartReturned ==
    lastOp \in {"start", "reset", "initializeApp"} /\ present = Slots

\* C12: a reset() or start() issued when now >= target has, when it returns,
\* left the session Expired with no active periodic timer, not Running.
C12_ResetAfterExpiryStaysExpired ==
    (StartReturned /\ now >= targetDate) =>
        /\ timerInterval = NULL
        /\ DOMAIN timers = {}

\* the four slots show the formatted fields of sample r
Shows(r) ==
    /\ slots.days = formatNumber(r.days)
    /\ slots.hours = formatNumber(r.hours)
    /\ slots.minutes = formatNumber(r.minutes)
    /\ slots.seconds = formatNumber(r.seconds)

\* C13: with all four slots present and now < target, start() renders exactly
\* one sample into the four slots before any tick of its timer can run and
\* leaves the session Running with a live timer that is due 1000 ms later;
\* every later non-expired tick overwrites all four slots with the formatted
\* fields of one fresh sample.
C13_StartRendersOnceThenTicks ==
    /\ (StartReturned /\ now < targetDate) =>
            /\ renders = 1
            /\ wrote = Slots
            /\ sample = calculateTimeRemaining(targetDate, now)
            /\ ~sample.isExpired
            /\ Shows(sample)
            /\ timerInterval # NULL
            /\ timerInterval \in DOMAIN timers
            /\ timers[timerInterval] = now + 1000
    /\ (lastOp = "tick" /\ ~sample.isExpired) =>
            /\ renders = 1
            /\ wrote = Slots
            /\ sample = calculateTimeRemaining(targetDate, now)
            /\ Shows(sample)

\* a non-expired tick has replaced what start() rendered by a different
\* sample
C13_Witness ==
    /\ lastOp = "tick"
    /\ ~sample.isExpired
    /\ now >= 1000
    /\ slots.minutes = "01"
    /\ slots.seconds = "00"
    /\ timerInterval \in DOMAIN timers

\* C15: after any sequence of start(), stop(), reset() and ticks at most one
\* timer of the session is live, and timerInterval is non-null exactly when
\* one is live, which is then the one it names.
C15_AtMostOneLiveTimer ==
    /\ Cardinality(DOMAIN timers) <= 1
    /\ (timerInterval # NULL) <=> (DOMAIN timers # {})
    /\ DOMAIN timers \subseteq {timerInterval}

\* the session is Expired for good: no timer is live and the field is null
ExpiredForGood == timerInterval = NULL /\ DOMAIN timers = {}

\* C16: once the page has started its session with all slots present, and
\* with the clock advancing, due ticks delivered and nobody calling stop(),
\* the session eventually is Expired and stays so: the timer is cancelled,
\* timerInterval is null and no tick is scheduled any more.
C16_EventuallyExpired ==
    /\ (timerInterval # NULL) ~> ExpiredForGood
    /\ [][(app = "initialized" /\ ExpiredForGood) => ExpiredForGood']_vars

\* a session started before its target has been ended by an expired tick
C16_Witness ==
    /\ "Countdown timer started" \in console
    /\ "Event date reached!" \in console
    /\ targetDate = 4000
    /\ lastOp = "tick"
    /\ ExpiredForGood

\* the status slot or the notify button shows that the event has started
MarkedStarted == statusText = "Event Started!" \/ notifyBtn.disabled

\* C17: the clock never going back, whenever the status slot reads "Event
\* Started!" or the notify button is disabled, the four numeric slots all
\* read "00"; and no step reverts the status text or the disabled button.
C17_MarkedStartedShowsZero ==
    [][/\ MarkedStarted' => \A e \in Slots : slots'[e] = "00"
       /\ statusText = "Event Started!" => statusText' = "Event Started!"
       /\ notifyBtn.disabled => notifyBtn' = notifyBtn]_vars

\* start() or reset() has run again on a session that is marked as started
C17_Witness ==
    /\ lastOp \in {"start", "reset"}
    /\ now > targetDate
    /\ statusText = "Event Started!"
    /\ notifyBtn.disabled
    /\ \A e \in Slots : slots[e] = "00"
    /\ Cardinality(console) >= 4

-----------------------------------------------------------------------------
(* Monotonicity of calculateTimeRemaining, checked under SpecCalc          *)

\* the state holds the results of two calls, at calcPrev.at and at now
SampledTwice == Sampled /\ calcPrev # NoSample

\* C18: for a fixed target and two instants now1 <= now2 the total seconds of
\* the sample at now2 is at most that of the sample at now1, and if the
\* sample at now1 is expired so is the sample at now2.
C18_RemainingIsMonotone ==
    SampledTwice =>
        /\ calcPrev.at <= now
        /\ TotalSeconds(sample) <= TotalSeconds(calcPrev.value)
        /\ calcPrev.value.isExpired => sample.isExpired

\* two samples, the later strictly smaller and both before the target
C18_Witness ==
    /\ SampledTwice
    /\ calcPrev.at < now
    /\ ~sample.isExpired
    /\ 0 < TotalSeconds(sample)
    /\ TotalSeconds(sample) < TotalSeconds(calcPrev.value)

-----------------------------------------------------------------------------
(* Properties of formatNumber, checked under SpecFormat                    *)

\* every character of str is a decimal digit
AllDigits(str) ==
    \A i \in 1..Len(str) : \E d \in 0..9 : SubSeq(str, i, i) = Digit[d + 1]

\* the number that the digit string str denotes
RECURSIVE DecimalValue(_)
DecimalValue(str) ==
    IF Len(str) = 0 THEN 0
    ELSE LET last == SubSeq(str, Len(str), Len(str))
             units == CHOOSE d \in 0..9 : Digit[d + 1] = last
         IN  (DecimalValue(SubSeq(str, 1, Len(str) - 1)) * 10) + units

\* C14: formatNumber(n) is the decimal representation of n padded on the left
\* with '0' to a width of two: it consists of digits and denotes n; for n in
\* 0..9 it is two characters with a leading zero (5 -> "05"); for n >= 10 it
\* has no leading zero, so it has its natural width and nothing is cut off
\* (123 -> "123").
C14_FormatIsPaddedDecimal ==
    (lastOp = "format") =>
        /\ AllDigits(formatResult)
        /\ DecimalValue(formatResult) = formatArg
        /\ Len(formatResult) >= 2
        /\ formatArg < 10 => Len(formatResult) = 2 /\ Head(formatResult) = "0"
        /\ formatArg >= 10 => Head(formatResult) # "0"
        /\ formatArg = 5 => formatResult = "05"
        /\ formatArg = 123 => formatResult = "123"

\* a three-digit number has been formatted at its natural width
C14_Witness ==
    lastOp = "format" /\ formatArg = 123 /\ formatResult = "123"

====
